---------------------------- MODULE Spec2Model ----------------------------
(***************************************************************************)
(* Accessibility audit tool (a11y): the rule-group (axe-core + puppeteer)   *)
(* orchestrator of index.js and the flat-issue (pa11y) orchestrator, with   *)
(* the normalisation of raw engine results into CSV records, the per-URL   *)
(* counts, the cross-run summary table and the process exit status.        *)
(***************************************************************************)
EXTENDS Integers, Sequences, FiniteSets, TLC

VARIABLES
    engine,      \* "axe" (index.js) or "pa11y" (the pa11y script)
    argv,        \* command-line arguments after the script name
    config,      \* config.js: [urls (may be absent), output]
    date,        \* the latest new Date() of the process, in milliseconds since
                 \* 00:00:00.000 of the day; the time of its start before that
    waited,      \* milliseconds of timer delays awaited since then
    clock,       \* the values the coming calls of new Date() return, in the
                 \* order of the calls
    pc,          \* position of the run
    idx,         \* 1-based position of the loop in the URL list
    browser,     \* number of browser instances open (axe)
    results,     \* <<raw engine result>> held by the check in progress, or <<>>
    csvData,     \* records prepared for the CSV of the check in progress
    pending,     \* <<outcome>> the check in progress is about to return, or <<>>
    summary,     \* outcomes pushed so far (summary / results array)
    files,       \* report files written so far
    rows,        \* rows of the cross-run summary table printed
    trace,       \* history of calls and console output: [ev, idx]
    exitStatus   \* <<>> while running, <<code>> once the process has exited

vars == <<engine, argv, config, date, waited, clock, pc, idx, browser, results, csvData, pending,
          summary, files, rows, trace, exitStatus>>

----------------------------------------------------------------------------
(* Bounds of the model *)

MaxUrls == 2
MaxGroups == 2
MaxNodes == 2
MaxIssues == 3

----------------------------------------------------------------------------
(* Strings that the code inspects character by character are sequences of  *)
(* one-character strings.                                                  *)

Tag_wcag2a == <<"w", "c", "a", "g", "2", "a">>
Tag_wcag244 == <<"w", "c", "a", "g", "2", "4", "4">>
Tag_cat == <<"c", "a", "t", ".", "a", "r", "i", "a">>
Tag_best == <<"b", "e", "s", "t">>

Wcag == <<"w", "c", "a", "g">>

\* String.prototype.includes
Includes(s, sub) ==
    \E i \in 1..(Len(s) - Len(sub) + 1) : SubSeq(s, i, i + Len(sub) - 1) = sub

\* violation.tags.filter((tag) => tag.includes('wcag'))
IsWcagTag(tag) == Includes(tag, Wcag)
WcagTags(tags) == SelectSeq(tags, IsWcagTag)

\* Array.prototype.join(', ')
RECURSIVE Join(_)
Join(tags) ==
    IF tags = <<>> THEN <<>>
    ELSE IF Len(tags) = 1 THEN tags[1]
    ELSE tags[1] \o <<",", " ">> \o Join(Tail(tags))

----------------------------------------------------------------------------
(* URLs *)

UrlA == "https://a.example"
UrlLong == "https://b.example/a/very/long/path/to/a/page"
UrlBad == "not a url"

Urls == {UrlA, UrlLong, UrlBad}

\* further URLs of the host of UrlA, for the report file names
UrlAbout == "https://a.example/about"
UrlHttp == "http://a.example"

\* the characters of a URL string
UrlChars(url) ==
    CASE url = UrlA -> <<"h", "t", "t", "p", "s", ":", "/", "/", "a", ".",
                        "e", "x", "a", "m", "p", "l", "e">>
      [] url = UrlLong -> <<"h", "t", "t", "p", "s", ":", "/", "/", "b",
                           ".", "e", "x", "a", "m", "p", "l", "e", "/",
                           "a", "/", "v", "e", "r", "y", "/", "l", "o",
                           "n", "g", "/", "p", "a", "t", "h", "/", "t",
                           "o", "/", "a", "/", "p", "a", "g", "e">>
      [] url = UrlBad -> <<"n", "o", "t", " ", "a", " ", "u", "r", "l">>
      [] url = UrlAbout -> <<"h", "t", "t", "p", "s", ":", "/", "/", "a",
                            ".", "e", "x", "a", "m", "p", "l", "e", "/",
                            "a", "b", "o", "u", "t">>
      [] url = UrlHttp -> <<"h", "t", "t", "p", ":", "/", "/", "a", ".",
                           "e", "x", "a", "m", "p", "l", "e">>

Chars_https == <<"h", "t", "t", "p", "s", ":", "/", "/">>
Chars_http == <<"h", "t", "t", "p", ":", "/", "/">>

MatchAt(s, p, pattern) ==
    /\ p + Len(pattern) - 1 <= Len(s)
    /\ SubSeq(s, p, p + Len(pattern) - 1) = pattern

\* length of the match of /https?:\/\// at position p, 0 when none
SchemeAt(s, p) ==
    IF MatchAt(s, p, Chars_https) THEN Len(Chars_https)
    ELSE IF MatchAt(s, p, Chars_http) THEN Len(Chars_http)
    ELSE 0

\* new URL(url).hostname, for a URL of the form scheme://host[:port][/path]
\* with a lower-case host: the characters between the scheme and the first
\* of ":", "/", "?", "#"
Hostname(s) ==
    LET rest == SubSeq(s, SchemeAt(s, 1) + 1, Len(s))
        stops == {p \in 1..Len(rest) : rest[p] \in {":", "/", "?", "#"}}
    IN  IF stops = {} THEN rest
        ELSE SubSeq(rest, 1, (CHOOSE p \in stops : \A q \in stops : p <= q) - 1)

\* new URL(url) succeeds (it throws TypeError on a string that is no URL)
ParsesAsURL(url) ==
    /\ SchemeAt(UrlChars(url), 1) > 0
    /\ Hostname(UrlChars(url)) # <<>>

\* url.length
UrlLength(url) == Len(UrlChars(url))

----------------------------------------------------------------------------
(* Report file names *)

AlphaNum ==
    {"a", "b", "c", "d", "e", "f", "g", "h", "i", "j", "k", "l", "m",
     "n", "o", "p", "q", "r", "s", "t", "u", "v", "w", "x", "y", "z",
     "A", "B", "C", "D", "E", "F", "G", "H", "I", "J", "K", "L", "M",
     "N", "O", "P", "Q", "R", "S", "T", "U", "V", "W", "X", "Y", "Z",
     "0", "1", "2", "3", "4", "5", "6", "7", "8", "9"}

\* the class \w
WordChars == AlphaNum \cup {"_"}

\* s.replace(/[^...]/g, '-') for the class `kept`
ReplaceOthers(s, kept) ==
    [p \in 1..Len(s) |-> IF s[p] \in kept THEN s[p] ELSE "-"]

\* s.replace(/[...]/g, '-') for the class `replaced`
ReplaceAll(s, replaced) ==
    [p \in 1..Len(s) |-> IF s[p] \in replaced THEN "-" ELSE s[p]]

\* url.replace(/https?:\/\//, ''): the first match is removed
StripScheme(s) ==
    LET matches == {p \in 1..Len(s) : SchemeAt(s, p) > 0}
    IN  IF matches = {} THEN s
        ELSE LET p == CHOOSE m \in matches : \A q \in matches : m <= q
             IN  SubSeq(s, 1, p - 1) \o SubSeq(s, p + SchemeAt(s, p), Len(s))

Digits == <<"0", "1", "2", "3", "4", "5", "6", "7", "8", "9">>
Pad2(n) == <<Digits[((n \div 10) % 10) + 1], Digits[(n % 10) + 1]>>
Pad3(n) == <<Digits[((n \div 100) % 10) + 1]>> \o Pad2(n)

\* the day the clock counts from
Today == <<"2", "0", "2", "4", "-", "0", "1", "-", "0", "1">>

\* new Date().toISOString() at `now` milliseconds of Today
ToISOString(now) ==
    Today \o <<"T">> \o Pad2(now \div 3600000) \o <<":">>
          \o Pad2((now \div 60000) % 60) \o <<":">>
          \o Pad2((now \div 1000) % 60) \o <<".">>
          \o Pad3(now % 1000) \o <<"Z">>

\* a timestamp that stops at the second
Timestamp_Seconds(now) ==
    ReplaceAll(SubSeq(ToISOString(now), 1, 19) \o <<"Z">>, {":", "."})

\* new Date().toISOString().replace(/[:.]/g, '-')
Timestamp(now) == ReplaceAll(ToISOString(now), {":", "."})

\* `${websiteName}-accessibility-report-${timestamp}.csv`
AxeFilename(url, now) ==
    ReplaceOthers(Hostname(UrlChars(url)), AlphaNum)
        \o <<"-", "a", "c", "c", "e", "s", "s", "i", "b", "i", "l", "i", "t", "y", "-", "r", "e", "p", "o", "r", "t", "-">>
        \o Timestamp(now) \o <<".", "c", "s", "v">>

\* new Date().toISOString().replace(/:/g, '-')
Pa11yTimestamp(now) == ReplaceAll(ToISOString(now), {":"})

\* `${urlSlug}-pa11y-report-${timestamp}.csv`
Pa11yFilename(url, now) ==
    ReplaceOthers(StripScheme(UrlChars(url)), WordChars)
        \o <<"-", "p", "a", "1", "1", "y", "-", "r", "e", "p", "o", "r", "t", "-">>
        \o Pa11yTimestamp(now) \o <<".", "c", "s", "v">>

\* await timeout(2000), in milliseconds
StabilizeWait == 2000
\* setTimeout(resolve, 1000) before axe.run, in milliseconds
AnimationWait == 1000
\* pa11y option wait: 1000, in milliseconds
Pa11yWait == 1000
\* page.goto / waitForSelector time budget: config.navigation.timeout
NavigationBudget == 60000
\* analysis time budget when config.axeConfig.timeout is not set
DefaultAxeTimeout == 60000
\* new Date() returns what the clock of the machine shows at the call: an
\* input of the run, as the command line is. Samples of it, counted from the
\* start of the process: the first report of a check with stubbed
\* collaborators, and a report after the launch of a real browser or after
\* an earlier report
FirstReading == 3021
ReadOffsets == {FirstReading, 6203}
\* times of day at which a run starts: midnight, and 3 s before 00:01
StartTimes == {0, 57000}

----------------------------------------------------------------------------
(* Raw engine results *)

NoImpact == "<null>"          \* impact: null (or absent)

\* node k of a rule group: {html, failureSummary?}
NoSummary == "<undefined>"    \* failureSummary absent
Node(k) == [html |-> k, failureSummary |-> IF k % 2 = 1 THEN "Fix any" ELSE NoSummary]
Nodes(n) == [k \in 1..n |-> Node(k)]

\* the rules a violation group can come from: impact and tags
ViolationKinds ==
    { [id |-> "aria-roles", impact |-> "critical", tags |-> <<Tag_cat, Tag_wcag2a>>],
      [id |-> "accesskeys", impact |-> "critical", tags |-> <<Tag_best>>],
      [id |-> "link-name", impact |-> "serious",  tags |-> <<Tag_wcag2a, Tag_wcag244>>],
      [id |-> "bypass", impact |-> "moderate", tags |-> <<Tag_wcag2a, Tag_wcag244>>],
      [id |-> "aria-valid", impact |-> NoImpact,   tags |-> <<Tag_cat, Tag_wcag2a>>],
      [id |-> "region", impact |-> NoImpact,   tags |-> <<Tag_best>>] }

ViolationGroups ==
    {[id |-> k.id, impact |-> k.impact, tags |-> k.tags, nodes |-> Nodes(n)] :
        k \in ViolationKinds, n \in 0..MaxNodes}

\* an incomplete group and a pass group
NoId == "<undefined>"         \* id absent
Incomplete(impact, n) ==
    [id |-> IF impact = NoImpact THEN NoId ELSE "color-contrast",
     impact |-> impact, tags |-> <<Tag_wcag2a, Tag_best>>, nodes |-> Nodes(n)]
Pass(n) == [id |-> "html-has-lang", impact |-> NoImpact, tags |-> <<Tag_wcag2a>>, nodes |-> Nodes(n)]

IncompleteLists ==
    { <<>>,
      <<Incomplete(NoImpact, 1)>>,
      <<Incomplete("serious", 0), Incomplete(NoImpact, 2)>> }

PassLists == { <<>>, <<Pass(1)>> }

SeqsUpTo(S, n) == UNION {[1..k -> S] : k \in 0..n}

\* results of axe.run: {violations, incomplete, passes}
RawResults ==
    {[violations |-> v, incomplete |-> i, passes |-> p] :
        v \in SeqsUpTo(ViolationGroups, MaxGroups),
        i \in IncompleteLists,
        p \in PassLists}

\* results the orchestrated runs draw from
SampleResults ==
    { [violations |-> <<>>, incomplete |-> <<>>, passes |-> <<>>],
      [violations |-> <<[id |-> "aria-roles", impact |-> "critical",
                         tags |-> <<Tag_cat, Tag_wcag2a>>, nodes |-> Nodes(2)]>>,
       incomplete |-> <<Incomplete(NoImpact, 1)>>,
       passes |-> <<>>],
      [violations |-> <<[id |-> "region", impact |-> "moderate",
                         tags |-> <<Tag_best>>, nodes |-> Nodes(1)]>>,
       incomplete |-> <<>>,
       passes |-> <<Pass(1)>>] }

\* results.issues of pa11y: a flat list of {type, ...}
IssueTypes == {"error", "warning", "notice"}
Issue(t, k) == [type |-> t, code |-> k]
RawIssues ==
    UNION {{[k \in 1..n |-> Issue(ty[k], k)] : ty \in [1..n -> IssueTypes]} :
              n \in 0..MaxIssues}
SampleIssues ==
    { <<>>, <<Issue("error", 1), Issue("warning", 2)>>, <<Issue("notice", 1)>> }

----------------------------------------------------------------------------
(* Normalisation of a rule-group result (checkAccessibility, index.js) *)

\* a || b on strings: null, undefined and '' are falsy
OrElse(a, b) == IF a \in {NoImpact, NoSummary, NoId, ""} THEN b ELSE a

\* obj.hasOwnProperty(key)
HasOwnProperty(obj, key) == key \in DOMAIN obj

\* results.violations.forEach: violationsByCategory[violation.impact]++
RECURSIVE CountByCategory(_, _)
CountByCategory(violations, acc) ==
    IF violations = <<>> THEN acc
    ELSE LET impact == Head(violations).impact
         IN  CountByCategory(Tail(violations),
                 IF HasOwnProperty(acc, impact)
                 THEN [acc EXCEPT ![impact] = @ + 1]
                 ELSE acc)

ViolationsByCategory(violations) ==
    CountByCategory(violations, [critical |-> 0, serious |-> 0])

\* wcagTags.forEach: violationsByWCAG[tag]++ (created at 0 when missing)
RECURSIVE CountTags(_, _)
CountTags(tags, acc) ==
    IF tags = <<>> THEN acc
    ELSE LET tag == Head(tags)
             start == IF tag \in DOMAIN acc THEN acc[tag] ELSE 0
         IN  CountTags(Tail(tags),
                 [t \in DOMAIN acc \cup {tag} |->
                     IF t = tag THEN start + 1 ELSE acc[t]])

RECURSIVE CountByWCAG(_, _)
CountByWCAG(violations, acc) ==
    IF violations = <<>> THEN acc
    ELSE CountByWCAG(Tail(violations),
             CountTags(WcagTags(Head(violations).tags), acc))

EmptyObject == [t \in {} |-> 0]

ViolationsByWCAG(violations) == CountByWCAG(violations, EmptyObject)

\* one record per violation group instead of one per node
ViolationRows_OnePerGroup(violation) ==
    [k \in 1..(IF violation.nodes = <<>> THEN 0 ELSE 1) |->
        [type |-> "Violation",
         impact |-> violation.impact,
         id |-> violation.id,
         wcag |-> Join(WcagTags(violation.tags)),
         element |-> violation.nodes[k].html,
         failure |-> OrElse(violation.nodes[k].failureSummary, "")]]

\* violation.nodes.forEach: one record per node of a violation group
ViolationRows(violation) ==
    [k \in 1..Len(violation.nodes) |->
        [type |-> "Violation",
         impact |-> violation.impact,
         id |-> violation.id,
         wcag |-> Join(WcagTags(violation.tags)),
         element |-> violation.nodes[k].html,
         failure |-> OrElse(violation.nodes[k].failureSummary, "")]]

\* check.nodes.forEach: one record per node of an incomplete group
NeedsReviewRows(check) ==
    [k \in 1..Len(check.nodes) |->
        [type |-> "Needs Review",
         impact |-> OrElse(check.impact, "unknown"),
         id |-> OrElse(check.id, ""),
         wcag |-> Join(WcagTags(check.tags)),
         element |-> check.nodes[k].html,
         failure |-> OrElse(check.nodes[k].failureSummary, "")]]

\* newest group first instead of engine order
RECURSIVE PushViolations_Reversed(_, _)
PushViolations_Reversed(groups, acc) ==
    IF groups = <<>> THEN acc
    ELSE PushViolations_Reversed(Tail(groups), ViolationRows(Head(groups)) \o acc)

\* results.violations.forEach(violation => violation.nodes.forEach(push))
RECURSIVE PushViolations(_, _)
PushViolations(groups, acc) ==
    IF groups = <<>> THEN acc
    ELSE PushViolations(Tail(groups), acc \o ViolationRows(Head(groups)))

\* results.incomplete.forEach(check => check.nodes.forEach(push))
RECURSIVE PushIncomplete(_, _)
PushIncomplete(groups, acc) ==
    IF groups = <<>> THEN acc
    ELSE PushIncomplete(Tail(groups), acc \o NeedsReviewRows(Head(groups)))

\* csvData as prepared for the CSV writer
CsvData(raw, output) ==
    LET withViolations == PushViolations(raw.violations, <<>>)
    IN  IF output.includeIncompleteTests
        THEN PushIncomplete(raw.incomplete, withViolations)
        ELSE withViolations

\* header of the axe report (createObjectCsvWriter); the free-text columns
\* Description, Help Text and Help URL are carried by no record of the model
AxeHeader ==
    << [id |-> "type", title |-> "Type"],
       [id |-> "impact", title |-> "Impact"],
       [id |-> "description", title |-> "Description"],
       [id |-> "help", title |-> "Help Text"],
       [id |-> "helpUrl", title |-> "Help URL"],
       [id |-> "id", title |-> "Rule ID"],
       [id |-> "wcag", title |-> "WCAG"],
       [id |-> "element", title |-> "Element"],
       [id |-> "failure", title |-> "Failure Summary"] >>

\* header of the pa11y report
Pa11yHeader ==
    << [id |-> "type", title |-> "Type"],
       [id |-> "code", title |-> "Code"],
       [id |-> "message", title |-> "Message"],
       [id |-> "context", title |-> "Context"],
       [id |-> "selector", title |-> "Selector"],
       [id |-> "runner", title |-> "Runner"] >>

\* csv-writer: the cell of a record under a column (null/undefined: empty)
CsvCell(record, id) ==
    IF id \notin DOMAIN record THEN ""
    ELSE IF id = "impact" /\ record[id] = NoImpact THEN ""
    ELSE record[id]

\* csvWriter.writeRecords(records): the header line, then one line per
\* record in the order of the array
CsvLines(header, records) ==
    <<[c \in 1..Len(header) |-> header[c].title]>>
    \o [k \in 1..Len(records) |->
          [c \in 1..Len(header) |-> CsvCell(records[k], header[c].id)]]

\* the object checkAccessibility returns on success
AxeOutcome(url, raw) ==
    [url |-> url,
     violations |-> Len(raw.violations),
     passes |-> Len(raw.passes),
     incomplete |-> Len(raw.incomplete),
     violationsByCategory |-> ViolationsByCategory(raw.violations),
     violationsByWCAG |-> ViolationsByWCAG(raw.violations)]

\* errors the collaborators reject with: {name, message}
LaunchError == [name |-> "Error", message |-> "Failed to launch the browser process"]
NavigationTimeout == [name |-> "TimeoutError", message |-> "Navigation timeout exceeded"]
NavigationError == [name |-> "Error", message |-> "net::ERR_NAME_NOT_RESOLVED"]
AxeTimeout == [name |-> "Error", message |-> "Axe analysis timeout"]
InjectError == [name |-> "Error", message |-> "Execution context was destroyed"]
EvaluateError == [name |-> "Error", message |-> "axe.run failed"]
MkdirError == [name |-> "Error", message |-> "ENOENT: no such file or directory, mkdir"]
WriteError == [name |-> "Error", message |-> "EACCES: permission denied"]
Pa11yError == [name |-> "Error", message |-> "net::ERR_NAME_NOT_RESOLVED"]

\* the catch block of checkAccessibility: what it prints, what it returns
CatchPrints(error) == IF error.name = "TimeoutError" THEN "hint" ELSE "error"
CatchOutcome(url, error) == [url |-> url, error |-> error.message]

\* result.error as a condition: set and not the empty string
HasError(result) == "error" \in DOMAIN result /\ result.error # ""

----------------------------------------------------------------------------
(* Summary table cells *)

UrlColumn == 40

\* a rendered text cell: the text and the number of characters it occupies
\* String.prototype.padEnd(n)
PadEnd(text, length, n) == [text |-> text, width |-> IF length < n THEN n ELSE length]

\* String.prototype.substring(0, n)
Substring(cell, n) == [text |-> cell.text, width |-> IF cell.width > n THEN n ELSE cell.width]

\* one row of the axe summary table (summary.forEach)
AxeRow(result) ==
    IF HasError(result)
    THEN [url |-> PadEnd(result.url, UrlLength(result.url), UrlColumn),
          status |-> "Error",
          cells |-> <<"N/A", "N/A", "N/A", "N/A">>]
    ELSE [url |-> PadEnd(result.url, UrlLength(result.url), UrlColumn),
          status |-> "Success",
          cells |-> <<ToString(result.violations),
                      ToString(result.violationsByCategory.critical),
                      ToString(result.violationsByCategory.serious),
                      ToString(result.incomplete)>>]

----------------------------------------------------------------------------
(* The flat-issue engine (checkAccessibilityWithPa11y, runPa11yChecks) *)

\* a filter that lets issues of any other type but "error" through as well
CountType_Loose(issues, type) ==
    LET IsType(issue) == issue.type = type \/ issue.type # "error"
    IN  Len(SelectSeq(issues, IsType))

\* results.issues.filter((issue) => issue.type === type).length
CountType(issues, type) ==
    LET IsType(issue) == issue.type = type
    IN  Len(SelectSeq(issues, IsType))

\* the object checkAccessibilityWithPa11y returns on success
Pa11yOutcome(url, issues) ==
    [url |-> url,
     errors |-> CountType(issues, "error"),
     warnings |-> CountType(issues, "warning"),
     notices |-> CountType(issues, "notice"),
     total |-> Len(issues)]

\* the object its catch block returns
Pa11yCatchOutcome(url, error) ==
    [url |-> url, errors |-> 0, warnings |-> 0, notices |-> 0, total |-> 0,
     error |-> error.message]

\* one row of the pa11y summary table (results.forEach)
Pa11yRow(result) ==
    [url |-> Substring(PadEnd(result.url, UrlLength(result.url), UrlColumn), UrlColumn),
     cells |-> <<ToString(result.total), ToString(result.errors),
                 ToString(result.warnings), ToString(result.notices)>>]

\* totalIssues += result.total; totalErrors += result.errors; ...
RECURSIVE Totals(_, _)
Totals(outcomes, acc) ==
    IF outcomes = <<>> THEN acc
    ELSE Totals(Tail(outcomes),
                [total |-> acc.total + Head(outcomes).total,
                 errors |-> acc.errors + Head(outcomes).errors,
                 warnings |-> acc.warnings + Head(outcomes).warnings,
                 notices |-> acc.notices + Head(outcomes).notices])

Pa11yTotals(outcomes) ==
    Totals(outcomes, [total |-> 0, errors |-> 0, warnings |-> 0, notices |-> 0])

Pa11yTotalRow(totals) ==
    [url |-> PadEnd("TOTAL", 5, UrlColumn),
     cells |-> <<ToString(totals.total), ToString(totals.errors),
                 ToString(totals.warnings), ToString(totals.notices)>>]

\* exit code of runPa11yChecks once the summary is printed
Pa11yExitCode(totals) == IF totals.errors > 0 THEN 1 ELSE 0

----------------------------------------------------------------------------
(* The run *)

Ev(e, i) == [ev |-> e, idx |-> i]

\* the guard without its length test
HasUrls_NoLengthCheck(cfg) == "urls" \in DOMAIN cfg

\* config.urls && config.urls.length > 0   /   !(!urls || urls.length === 0)
HasUrls(cfg) == "urls" \in DOMAIN cfg /\ Len(cfg.urls) > 0

\* the list the loop iterates over
RunUrls ==
    IF engine = "legacy" THEN argv
    ELSE IF engine = "pa11y" /\ Len(argv) > 0 THEN <<argv[1]>>
    ELSE IF "urls" \in DOMAIN config THEN config.urls ELSE <<>>

\* unshift instead of push
Push_Prepend(list, result) == <<result>> \o list

\* summary.push(result)
Push(list, result) == Append(list, result)

\* config.axeConfig.timeout: 0 when it is not set, a short budget, and
\* the value of config.js
AxeTimeouts == {0, 1500, 30000}
AxeConfigs == [timeout : AxeTimeouts]

\* config.axeConfig.timeout || 60000
AnalysisBudget(cfg) ==
    IF cfg.axeConfig.timeout = 0 THEN DefaultAxeTimeout
    ELSE cfg.axeConfig.timeout

\* a step that awaits timers of `ms` milliseconds in all
Wait(ms) ==
    /\ waited' = waited + ms
    /\ UNCHANGED <<date, clock>>

\* the values new Date() returns to a process started at `start`, one for
\* each report it can write; the wall clock can stand still or be set back
\* between two calls
Tapes(start, n) == [1..n -> {start + off : off \in ReadOffsets}]

\* new Date() returns the next value of the clock, whatever it is
ReadClock ==
    /\ clock # <<>>
    /\ date' = Head(clock)
    /\ waited' = 0
    /\ clock' = Tail(clock)

Outputs == [directory : {"results"}, includePassingTests : {FALSE},
            includeIncompleteTests : BOOLEAN]

\* config.output with no directory entry
NoDirectory == [includePassingTests |-> FALSE, includeIncompleteTests |-> TRUE]

\* config.output.directory is set
HasDirectory(cfg) == "directory" \in DOMAIN cfg.output

\* config.js as it is in the repository, for a URL of the model
DefaultConfig ==
    [urls |-> <<UrlA>>,
     output |-> [directory |-> "results", includePassingTests |-> FALSE,
                 includeIncompleteTests |-> TRUE],
     axeConfig |-> [timeout |-> 30000]]

Configs ==
    {[output |-> o, axeConfig |-> a] : o \in Outputs, a \in AxeConfigs}
    \cup {[urls |-> u, output |-> o, axeConfig |-> a] :
              u \in SeqsUpTo(Urls, MaxUrls), o \in Outputs \cup {NoDirectory},
              a \in AxeConfigs}

Init ==
    /\ engine \in {"axe", "pa11y", "legacy"}
    /\ argv \in {<<>>} \cup {<<u>> : u \in Urls}
    /\ config \in IF engine = "legacy" THEN {DefaultConfig} ELSE Configs
    /\ date \in StartTimes
    /\ waited = 0
    /\ clock \in Tapes(date, MaxUrls)
    /\ pc = "entry"
    /\ idx = 1
    /\ browser = 0
    /\ results = <<>>
    /\ csvData = <<>>
    /\ pending = <<>>
    /\ summary = <<>>
    /\ files = <<>>
    /\ rows = <<>>
    /\ trace = <<>>
    /\ exitStatus = <<>>

\* process.exit(code), or the process ending with that code
Exit(code) ==
    /\ pc' = "exited"
    /\ exitStatus' = <<code>>

\* runAccessibilityChecks() up to its loop: the results directory exists or
\* is created, or mkdirSync throws (it does when no directory is configured);
\* nothing handles the rejection of runAccessibilityChecks(), the process
\* dies with code 1
EnsureDirectory ==
    \/ /\ HasDirectory(config)
       /\ pc' = "loop"
       /\ UNCHANGED <<trace, exitStatus>>
    \/ /\ trace' = trace \o <<Ev("mkdir_failed", 0), Ev("uncaught", 0)>>
       /\ Exit(1)

\* index.js, module entry: choose the URL list and call
\* runAccessibilityChecks(), or exit(1)
ModuleEntry ==
    /\ engine = "axe"
    /\ pc = "entry"
    /\ IF Len(argv) > 0
       THEN /\ config' = [urls |-> <<argv[1]>>, output |-> config.output,
                        axeConfig |-> config.axeConfig]
            /\ EnsureDirectory
       ELSE IF HasUrls(config)
       THEN /\ EnsureDirectory
            /\ UNCHANGED config
       ELSE /\ Exit(1)
            /\ UNCHANGED <<config, trace>>
    /\ UNCHANGED <<engine, argv, date, waited, clock, idx, browser, results, csvData,
                   pending, summary, files, rows>>

\* the catch block of checkAccessibility, entered with `error`
Catch(error, events) ==
    /\ pending' = <<CatchOutcome(RunUrls[idx], error)>>
    /\ trace' = trace \o events \o <<Ev(CatchPrints(error), idx)>>
    /\ pc' = "finally"

\* runAccessibilityChecks: next iteration calls checkAccessibility(url),
\* which parses the URL before its try block
AxeCheckBegin ==
    /\ engine = "axe"
    /\ pc = "loop"
    /\ idx <= Len(RunUrls)
    /\ IF ParsesAsURL(RunUrls[idx])
       THEN /\ trace' = Append(trace, Ev("check", idx))
            /\ pc' = "launch"
            /\ UNCHANGED exitStatus
       ELSE \* TypeError outside the try: runAccessibilityChecks() rejects and
            \* nothing handles the rejection, the process dies with code 1
            /\ trace' = trace \o <<Ev("check", idx), Ev("uncaught", idx)>>
            /\ Exit(1)
    /\ UNCHANGED <<engine, argv, config, date, waited, clock, idx, browser, results, csvData,
                   pending, summary, files, rows>>

\* browser = await puppeteer.launch(config.browser)
AxeLaunch ==
    /\ engine = "axe"
    /\ pc = "launch"
    /\ \/ /\ browser' = browser + 1
          /\ trace' = Append(trace, Ev("launch", idx))
          /\ pc' = "navigate"
          /\ UNCHANGED pending
       \/ /\ Catch(LaunchError, <<Ev("launch", idx)>>)
          /\ UNCHANGED browser
    /\ UNCHANGED <<engine, argv, config, date, waited, clock, idx, results, csvData,
                   summary, files, rows, exitStatus>>

\* newPage ... page.goto, waitForSelector('body'), timeout(2000)
AxeNavigate ==
    /\ engine = "axe"
    /\ pc = "navigate"
    /\ \/ /\ pc' = "analyse"
          /\ Wait(StabilizeWait)
          /\ UNCHANGED <<pending, trace>>
       \/ /\ Catch(NavigationTimeout, <<Ev("navigation_timeout", idx)>>)
          /\ Wait(NavigationBudget)
       \/ /\ Catch(NavigationError, <<>>)
          /\ Wait(0)
    /\ UNCHANGED <<engine, argv, config, idx, browser, results, csvData,
                   summary, files, rows, exitStatus>>

\* results = await runAxeAnalysis(page): Promise.race of axe.run and a timer
runAxeAnalysis ==
    /\ engine = "axe"
    /\ pc = "analyse"
    /\ \/ /\ \E raw \in SampleResults : results' = <<raw>>
          /\ Wait(AnimationWait)
          /\ pc' = "report"
          /\ UNCHANGED <<pending, trace>>
       \/ /\ Catch(AxeTimeout, <<Ev("analysis_timeout", idx)>>)
          /\ Wait(AnalysisBudget(config))
          /\ UNCHANGED results
       \/ /\ Catch(InjectError, <<>>)
          /\ Wait(0)
          /\ UNCHANGED results
       \/ /\ Catch(EvaluateError, <<>>)
          /\ Wait(AnimationWait)
          /\ UNCHANGED results
    /\ UNCHANGED <<engine, argv, config, idx, browser, csvData, summary,
                   files, rows, exitStatus>>

\* counts, csvData, csvWriter.writeRecords(csvData), console detail, return
AxeReport ==
    /\ engine = "axe"
    /\ pc = "report"
    /\ csvData' = CsvData(results[1], config.output)
    /\ LET now == Head(clock)
       IN /\ ReadClock
          /\ \/ /\ files' = Append(files, [url |-> RunUrls[idx],
                                        time |-> now,
                                        name |-> AxeFilename(RunUrls[idx], now),
                                        lines |-> CsvLines(AxeHeader, csvData')])
                /\ pending' = <<AxeOutcome(RunUrls[idx], results[1])>>
                /\ pc' = "finally"
                /\ UNCHANGED trace
             \/ /\ Catch(WriteError, <<Ev("write_failed", idx)>>)
                /\ UNCHANGED files
    /\ UNCHANGED <<engine, argv, config, idx, browser, results, summary,
                   rows, exitStatus>>

\* the finally block without its close
CloseBrowser_Skipped(open) == open

\* if (browser) { await browser.close() }
CloseBrowser(open) == IF open > 0 THEN open - 1 ELSE open

\* finally { if (browser) await browser.close() }, then summary.push(result)
AxeFinally ==
    /\ engine = "axe"
    /\ pc = "finally"
    /\ browser' = CloseBrowser(browser)
    /\ summary' = Push(summary, pending[1])
    /\ trace' = Append(trace, Ev("push", idx))
    /\ pending' = <<>>
    /\ results' = <<>>
    /\ csvData' = <<>>
    /\ idx' = idx + 1
    /\ pc' = "loop"
    /\ UNCHANGED <<engine, argv, config, date, waited, clock, files, rows, exitStatus>>

\* the summary table of runAccessibilityChecks, then .then(() => process.exit(0))
AxeSummary ==
    /\ engine = "axe"
    /\ pc = "loop"
    /\ idx > Len(RunUrls)
    /\ rows' = [i \in 1..Len(summary) |-> AxeRow(summary[i])]
    /\ Exit(0)
    /\ UNCHANGED <<engine, argv, config, date, waited, clock, idx, browser, results, csvData,
                   pending, summary, files, trace>>

\* runPa11yChecks: choose the URL list or exit(1)
Pa11yEntry ==
    /\ engine = "pa11y"
    /\ pc = "entry"
    /\ IF Len(argv) > 0 \/ HasUrls(config)
       THEN /\ pc' = "loop"
            /\ UNCHANGED exitStatus
       ELSE Exit(1)
    /\ UNCHANGED <<engine, argv, config, date, waited, clock, idx, browser, results, csvData,
                   pending, summary, files, rows, trace>>

\* next iteration: checkAccessibilityWithPa11y(url) calls pa11y(url, options)
Pa11yStart ==
    /\ engine = "pa11y"
    /\ pc = "loop"
    /\ idx <= Len(RunUrls)
    /\ trace' = trace \o <<Ev("check", idx), Ev("launch", idx)>>
    /\ pc' = "pa11y"
    /\ UNCHANGED <<engine, argv, config, date, waited, clock, idx, browser, results, csvData,
                   pending, summary, files, rows, exitStatus>>

\* pa11y resolves with its issues or rejects (caught by the catch block)
Pa11yResolve ==
    /\ engine = "pa11y"
    /\ pc = "pa11y"
    /\ \/ /\ ParsesAsURL(RunUrls[idx])
          /\ \E issues \in SampleIssues : results' = <<issues>>
          /\ Wait(Pa11yWait)
          /\ pc' = "report"
          /\ UNCHANGED <<pending, trace>>
       \/ /\ pending' = <<Pa11yCatchOutcome(RunUrls[idx], Pa11yError)>>
          /\ trace' = Append(trace, Ev("error", idx))
          /\ pc' = "return"
          /\ Wait(0)
          /\ UNCHANGED results
    /\ UNCHANGED <<engine, argv, config, idx, browser, csvData, summary,
                   files, rows, exitStatus>>

\* counts by type, console detail, CSV report, return
Pa11yReport ==
    /\ engine = "pa11y"
    /\ pc = "report"
    /\ csvData' = results[1]
    /\ IF HasDirectory(config)
       THEN LET now == Head(clock)
            IN /\ ReadClock
               /\ \/ /\ files' = Append(files,
                                 [url |-> RunUrls[idx],
                                  time |-> now,
                                  name |-> Pa11yFilename(RunUrls[idx], now),
                                  lines |-> CsvLines(Pa11yHeader, csvData')])
                     /\ pending' = <<Pa11yOutcome(RunUrls[idx], results[1])>>
                     /\ UNCHANGED trace
                  \* ensureDirectoryExists throws inside the try
                  \/ /\ pending' = <<Pa11yCatchOutcome(RunUrls[idx], MkdirError)>>
                     /\ trace' = trace \o <<Ev("mkdir_failed", idx), Ev("error", idx)>>
                     /\ UNCHANGED files
                  \/ /\ pending' = <<Pa11yCatchOutcome(RunUrls[idx], WriteError)>>
                     /\ trace' = trace \o <<Ev("write_failed", idx), Ev("error", idx)>>
                     /\ UNCHANGED files
       \* if (config.output?.directory) is false: no report is written
       ELSE /\ pending' = <<Pa11yOutcome(RunUrls[idx], results[1])>>
            /\ Wait(0)
            /\ UNCHANGED <<files, trace>>
    /\ pc' = "return"
    /\ UNCHANGED <<engine, argv, config, idx, browser, results, summary,
                   rows, exitStatus>>

\* results.push(result)
Pa11yReturn ==
    /\ engine = "pa11y"
    /\ pc = "return"
    /\ summary' = Push(summary, pending[1])
    /\ trace' = Append(trace, Ev("push", idx))
    /\ pending' = <<>>
    /\ results' = <<>>
    /\ csvData' = <<>>
    /\ idx' = idx + 1
    /\ pc' = "loop"
    /\ UNCHANGED <<engine, argv, config, date, waited, clock, browser, files, rows, exitStatus>>

\* the summary table of runPa11yChecks and the exit code
Pa11ySummary ==
    /\ engine = "pa11y"
    /\ pc = "loop"
    /\ idx > Len(RunUrls)
    /\ rows' = [i \in 1..Len(summary) |-> Pa11yRow(summary[i])]
               \o <<Pa11yTotalRow(Pa11yTotals(summary))>>
    /\ Exit(Pa11yExitCode(Pa11yTotals(summary)))
    /\ UNCHANGED <<engine, argv, config, date, waited, clock, idx, browser, results, csvData,
                   pending, summary, files, trace>>

----------------------------------------------------------------------------
(* The single-URL script (index.js from line 432): checkAccessibility(url) *)
(* for the URL of the command line, with no configuration and no summary   *)

\* time budget of its navigation and of its analysis, in milliseconds
LegacyBudget == 60000

\* header of its report
LegacyHeader ==
    << [id |-> "type", title |-> "Type"],
       [id |-> "impact", title |-> "Impact"],
       [id |-> "description", title |-> "Description"],
       [id |-> "wcag", title |-> "WCAG"],
       [id |-> "element", title |-> "Element"],
       [id |-> "failure", title |-> "Failure Summary"] >>

\* the impact cell of a record of type `type`
LegacyImpact(group, type) ==
    CASE type = "Violation" -> group.impact
      [] type = "Pass" -> "none"
      [] type = "Needs Review" -> OrElse(group.impact, "unknown")

\* group.nodes.forEach: one record per node of a group
LegacyRows(group, type) ==
    [k \in 1..Len(group.nodes) |->
        [type |-> type,
         impact |-> LegacyImpact(group, type),
         wcag |-> Join(WcagTags(group.tags)),
         element |-> group.nodes[k].html,
         failure |-> IF type = "Pass" THEN ""
                     ELSE OrElse(group.nodes[k].failureSummary, "")]]

\* groups.forEach(group => group.nodes.forEach(push))
RECURSIVE LegacyPush(_, _, _)
LegacyPush(groups, type, acc) ==
    IF groups = <<>> THEN acc
    ELSE LegacyPush(Tail(groups), type, acc \o LegacyRows(Head(groups), type))

\* csvData: violations, then passes, then incomplete checks
LegacyCsvData(raw) ==
    LegacyPush(raw.incomplete, "Needs Review",
        LegacyPush(raw.passes, "Pass",
            LegacyPush(raw.violations, "Violation", <<>>)))

\* `${websiteName}-accessibility-report-${timestamp}.csv` in results/
LegacyFilename(url, now) ==
    ReplaceOthers(Hostname(UrlChars(url)), AlphaNum)
        \o <<"-", "a", "c", "c", "e", "s", "s", "i", "b", "i", "l", "i", "t", "y", "-", "r", "e", "p", "o", "r", "t", "-">>
        \o Timestamp(now) \o <<".", "c", "s", "v">>

\* its catch block: the hint or the error, then process.exit(1); the
\* finally block is not reached and the browser is not closed
LegacyCatch(error, events) ==
    /\ trace' = trace \o events
                  \o <<Ev(IF error.name = "TimeoutError" THEN "hint" ELSE "error", 1)>>
    /\ Exit(1)

\* checkAccessibility(process.argv[2]) up to the try block
LegacyEntry ==
    /\ engine = "legacy"
    /\ pc = "entry"
    /\ IF argv = <<>>
       THEN /\ Exit(1)
            /\ UNCHANGED trace
       ELSE \/ \* mkdirSync('results') throws outside the try: the promise
                \* rejects unhandled
                /\ trace' = trace \o <<Ev("check", 1), Ev("mkdir_failed", 1),
                                       Ev("uncaught", 1)>>
                /\ Exit(1)
             \/ IF ParsesAsURL(argv[1])
                THEN /\ trace' = Append(trace, Ev("check", 1))
                     /\ pc' = "launch"
                     /\ UNCHANGED exitStatus
                ELSE \* TypeError outside the try, unhandled as well
                     /\ trace' = trace \o <<Ev("check", 1), Ev("uncaught", 1)>>
                     /\ Exit(1)
    /\ UNCHANGED <<engine, argv, config, date, waited, clock, idx, browser, results, csvData,
                   pending, summary, files, rows>>

\* browser = await puppeteer.launch({...})
LegacyLaunch ==
    /\ engine = "legacy"
    /\ pc = "launch"
    /\ \/ /\ browser' = browser + 1
          /\ trace' = Append(trace, Ev("launch", 1))
          /\ pc' = "navigate"
          /\ UNCHANGED exitStatus
       \/ /\ LegacyCatch(LaunchError, <<Ev("launch", 1)>>)
          /\ UNCHANGED browser
    /\ UNCHANGED <<engine, argv, config, date, waited, clock, idx, results, csvData,
                   pending, summary, files, rows>>

\* newPage ... page.goto, waitForSelector('body')
LegacyNavigate ==
    /\ engine = "legacy"
    /\ pc = "navigate"
    /\ \/ /\ pc' = "analyse"
          /\ Wait(0)
          /\ UNCHANGED <<trace, exitStatus>>
       \/ /\ LegacyCatch(NavigationTimeout, <<Ev("navigation_timeout", 1)>>)
          /\ Wait(LegacyBudget)
       \/ /\ LegacyCatch(NavigationError, <<>>)
          /\ Wait(0)
    /\ UNCHANGED <<engine, argv, config, idx, browser, results, csvData,
                   pending, summary, files, rows>>

\* page.evaluate(axeCore.source), then Promise.race of axe.run and a timer
LegacyAnalyse ==
    /\ engine = "legacy"
    /\ pc = "analyse"
    /\ \/ /\ \E raw \in SampleResults : results' = <<raw>>
          /\ Wait(0)
          /\ pc' = "report"
          /\ UNCHANGED <<trace, exitStatus>>
       \/ /\ LegacyCatch(AxeTimeout, <<Ev("analysis_timeout", 1)>>)
          /\ Wait(LegacyBudget)
          /\ UNCHANGED results
       \/ /\ LegacyCatch(EvaluateError, <<>>)
          /\ Wait(0)
          /\ UNCHANGED results
    /\ UNCHANGED <<engine, argv, config, idx, browser, csvData, pending,
                   summary, files, rows>>

\* csvData, csvWriter.writeRecords(csvData), console detail
LegacyReport ==
    /\ engine = "legacy"
    /\ pc = "report"
    /\ csvData' = LegacyCsvData(results[1])
    /\ LET now == Head(clock)
       IN /\ ReadClock
          /\ \/ /\ files' = Append(files, [url |-> RunUrls[1],
                                        time |-> now,
                                        name |-> LegacyFilename(RunUrls[1], now),
                                        lines |-> CsvLines(LegacyHeader, csvData')])
                /\ pc' = "finally"
                /\ UNCHANGED <<trace, exitStatus>>
             \/ /\ LegacyCatch(WriteError, <<Ev("write_failed", 1)>>)
                /\ UNCHANGED files
    /\ UNCHANGED <<engine, argv, config, idx, browser, results, pending,
                   summary, rows>>

\* finally { if (browser) await browser.close(); process.exit(0) }
LegacyFinally ==
    /\ engine = "legacy"
    /\ pc = "finally"
    /\ browser' = CloseBrowser(browser)
    /\ Exit(0)
    /\ UNCHANGED <<engine, argv, config, date, waited, clock, idx, results, csvData, pending,
                   summary, files, rows, trace>>

Next ==
    \/ ModuleEntry
    \/ AxeCheckBegin
    \/ AxeLaunch
    \/ AxeNavigate
    \/ runAxeAnalysis
    \/ AxeReport
    \/ AxeFinally
    \/ AxeSummary
    \/ Pa11yEntry
    \/ Pa11yStart
    \/ Pa11yResolve
    \/ Pa11yReport
    \/ Pa11yReturn
    \/ Pa11ySummary
    \/ LegacyEntry
    \/ LegacyLaunch
    \/ LegacyNavigate
    \/ LegacyAnalyse
    \/ LegacyReport
    \/ LegacyFinally

Spec == Init /\ [][Next]_vars

----------------------------------------------------------------------------
(* Normalisation on its own: a check that has just received its raw result  *)
(* (any rule-group result or issue list within the bounds) and reports it.  *)

\* the timer delays a check has awaited when it reaches its report
ReportWaited(e) ==
    CASE e = "axe" -> StabilizeWait + AnimationWait
      [] e = "pa11y" -> Pa11yWait
      [] e = "legacy" -> 0

NormOutputs == [directory : {"results"}, includePassingTests : BOOLEAN,
                includeIncompleteTests : BOOLEAN]

InitNorm ==
    /\ engine \in {"axe", "pa11y", "legacy"}
    /\ argv = IF engine = "legacy" THEN <<UrlA>> ELSE <<>>
    /\ config \in {[urls |-> <<UrlA>>, output |-> o,
                      axeConfig |-> [timeout |-> 30000]] : o \in NormOutputs}
    /\ date = 0
    /\ waited = ReportWaited(engine)
    /\ clock = <<FirstReading>>
    /\ pc = "report"
    /\ idx = 1
    /\ browser = IF engine = "pa11y" THEN 0 ELSE 1
    /\ results \in IF engine = "pa11y"
                   THEN {<<issues>> : issues \in RawIssues}
                   ELSE {<<raw>> : raw \in RawResults}
    /\ csvData = <<>>
    /\ pending = <<>>
    /\ summary = <<>>
    /\ files = <<>>
    /\ rows = <<>>
    /\ trace = <<Ev("check", 1), Ev("launch", 1)>>
    /\ exitStatus = <<>>

NextNorm ==
    \/ AxeReport
    \/ Pa11yReport
    \/ LegacyReport

SpecNorm == InitNorm /\ [][NextNorm]_vars

\* URLs of the reports of a directory
NameUrls == {UrlA, UrlAbout, UrlHttp, UrlLong}
\* a run with one report to write, or with two
NameLists == {<<u>> : u \in NameUrls} \cup {<<u, v>> : u, v \in NameUrls}
NameWrites == 2

\* the name a script gives the report of `url` written at `t`
Filename(e, url, t) ==
    CASE e = "axe" -> AxeFilename(url, t)
      [] e = "pa11y" -> Pa11yFilename(url, t)
      [] e = "legacy" -> LegacyFilename(url, t)

\* A run starts with a results directory that holds one report, which the
\* same script wrote in another process for some URL, in the millisecond of
\* a reading of this run's clock or in the millisecond before.
InitNames ==
    /\ engine \in {"axe", "pa11y", "legacy"}
    /\ \E urls \in NameLists :
          /\ argv = IF engine = "legacy" THEN <<urls[1]>> ELSE <<>>
          /\ config = [urls |-> urls,
                       output |-> [directory |-> "results",
                                   includePassingTests |-> FALSE,
                                   includeIncompleteTests |-> TRUE],
                       axeConfig |-> [timeout |-> 30000]]
    /\ date \in StartTimes
    /\ waited = 0
    /\ clock \in Tapes(date, NameWrites)
    /\ pc = "entry"
    /\ idx = 1
    /\ browser = 0
    /\ results = <<>>
    /\ csvData = <<>>
    /\ pending = <<>>
    /\ summary = <<>>
    /\ \E u \in NameUrls, r \in {clock[k] : k \in DOMAIN clock}, early \in {0, 1} :
          files = <<[url |-> u, time |-> r - early,
                     name |-> Filename(engine, u, r - early),
                     lines |-> CsvLines(CASE engine = "axe" -> AxeHeader
                                          [] engine = "pa11y" -> Pa11yHeader
                                          [] engine = "legacy" -> LegacyHeader,
                                        <<>>)]>>
    /\ rows = <<>>
    /\ trace = <<>>
    /\ exitStatus = <<>>

SpecNames == InitNames /\ [][Next]_vars

----------------------------------------------------------------------------
(* Vocabulary of the properties *)

Range(f) == {f[i] : i \in DOMAIN f}

EventsOf(e) ==
    LET Is(x) == x.ev = e
    IN  SelectSeq(trace, Is)

\* the run went through the check-runner call of URL i
Checked(i) == \E p \in DOMAIN trace : trace[p] = Ev("check", i)

\* the run died on an exception nobody handled
Crashed == \E p \in DOMAIN trace : trace[p].ev = "uncaught"

\* the run died before its loop: the results directory could not be made
EntryFailed == \E p \in DOMAIN trace : trace[p] = Ev("mkdir_failed", 0)

\* sum of the affected-element counts over rule groups
RECURSIVE SumNodes(_)
SumNodes(groups) ==
    IF groups = <<>> THEN 0 ELSE Len(Head(groups).nodes) + SumNodes(Tail(groups))

\* number of records of one type
CountRows(records, type) == Cardinality({k \in DOMAIN records : records[k].type = type})

\* the check in progress has built its report and returns a success outcome
AxeReported ==
    /\ engine = "axe"
    /\ pc = "finally"
    /\ results # <<>>
    /\ ~HasError(pending[1])

\* the check in progress has built its records (written or not)
AxeNormalized ==
    /\ engine = "axe"
    /\ pc = "finally"
    /\ results # <<>>

\* the single-URL script has built its records (written or not)
LegacyNormalized ==
    /\ engine = "legacy"
    /\ pc \in {"finally", "exited"}
    /\ results # <<>>

\* the single-URL script has written its report
LegacyReported ==
    /\ engine = "legacy"
    /\ pc = "finally"

\* a script that builds records from a rule-group result has built them
RuleGroupNormalized == AxeNormalized \/ LegacyNormalized

\* the run is one of the two orchestrators, which iterate a URL list
Orchestrated == engine \in {"axe", "pa11y"}

AllTags == {Tag_wcag2a, Tag_wcag244, Tag_cat, Tag_best}

\* a summary row that shows a failure: failure indicator and placeholder cells
IsFailedRow(row) ==
    /\ "status" \in DOMAIN row
    /\ row.status = "Error"
    /\ \A c \in DOMAIN row.cells : row.cells[c] = "N/A"

\* the count an outcome has in the highest-severity bucket of its engine
HighestSeverity(result) ==
    IF engine = "axe"
    THEN IF "violationsByCategory" \in DOMAIN result
         THEN result.violationsByCategory.critical ELSE 0
    ELSE result.errors

RECURSIVE SumHighest(_)
SumHighest(outcomes) ==
    IF outcomes = <<>> THEN 0
    ELSE HighestSeverity(Head(outcomes)) + SumHighest(Tail(outcomes))

\* a step of the check of URL i failed
FailedAt(i) ==
    \E p \in DOMAIN trace :
        /\ trace[p].idx = i
        /\ trace[p].ev \in {"hint", "error", "uncaught"}

----------------------------------------------------------------------------
(* Properties *)

\* C1 (as claimed): when the run has ended, every URL of the list was checked,
\* the summary holds exactly one outcome per URL, in both engines, and every
\* URL whose check failed (unparseable URL included) has an outcome with
\* `error` set.
C1_EveryFailureCaptured ==
    Orchestrated /\ pc = "exited" /\ RunUrls # <<>> /\ ~EntryFailed =>
        /\ Len(summary) = Len(RunUrls)
        /\ \A i \in 1..Len(RunUrls) :
              /\ Checked(i)
              /\ FailedAt(i) => i <= Len(summary) /\ HasError(summary[i])

\* C2 (as claimed): when a run has printed its summary and ended, the exit
\* status is non-zero exactly when the URL list was empty or the summed
\* highest-severity count (critical / errors) is greater than zero.
C2_ExitStatusReflectsFindings ==
    Orchestrated /\ pc = "exited" /\ ~Crashed =>
        (exitStatus[1] # 0 <=> (RunUrls = <<>> \/ SumHighest(summary) > 0))

\* C3: with no command-line URL and an empty or absent configured URL list
\* (the single-URL script reads no configured list at all), the run never
\* calls the check-runner and never enters the loop, and when it has exited
\* its exit code is 1.
C3_NoUrlsExitBeforeRunner ==
    /\ argv = <<>>
    /\ engine = "legacy" \/ ~("urls" \in DOMAIN config /\ config.urls # <<>>)
    =>
        /\ EventsOf("launch") = <<>>
        /\ EventsOf("check") = <<>>
        /\ pc \in {"entry", "exited"}
        /\ pc = "exited" => exitStatus = <<1>>

C3_Witness ==
    /\ argv = <<>>
    /\ "urls" \in DOMAIN config
    /\ config.urls = <<>>
    /\ pc = "exited"
    /\ exitStatus = <<1>>

\* C4: checks are called in the order of the URL list, one at a time: the
\* j-th check started is that of URL j, it starts only after the outcomes of
\* URLs 1..j-1 have been appended, the summary lists the outcomes in URL
\* order, and at most one check (and one browser) is in progress.
C4_SequentialInOrder ==
    /\ \A i \in 1..Len(summary) : i <= Len(RunUrls) /\ summary[i].url = RunUrls[i]
    /\ \A j \in 1..Len(EventsOf("check")) : EventsOf("check")[j].idx = j
    /\ \A j \in 1..Len(EventsOf("push")) : EventsOf("push")[j].idx = j
    /\ Len(EventsOf("push")) = Len(summary)
    /\ \A p \in DOMAIN trace :
          trace[p].ev = "check" =>
              Cardinality({q \in 1..(p - 1) : trace[q].ev = "push"}) = trace[p].idx - 1
    /\ Len(EventsOf("check")) - Len(EventsOf("push")) \in {0, 1}
    /\ browser <= 1

C4_Witness ==
    /\ pc = "exited"
    /\ Len(summary) = 2
    /\ summary[1].url # summary[2].url
    /\ HasError(summary[1])
    /\ ~HasError(summary[2])

\* C5 (as claimed): in the printed summary table of either engine, every
\* outcome with `error` set is a failed row (failure indicator, placeholder
\* cells), never a row of numeric counts.
C5_ErrorRowsAreFailedRows ==
    pc = "exited" /\ Len(rows) >= Len(summary) =>
        \A i \in 1..Len(summary) :
            "error" \in DOMAIN summary[i] => IsFailedRow(rows[i])

\* C6 (as claimed): the Violation records number the sum of the node counts of
\* the violation groups and the Needs Review records number the sum of the
\* node counts of the incomplete groups, for every raw result.
C6_FanOutUnconditional ==
    RuleGroupNormalized =>
        /\ CountRows(csvData, "Violation") = SumNodes(results[1].violations)
        /\ CountRows(csvData, "Needs Review") = SumNodes(results[1].incomplete)

\* C6 (amended): the Violation records number the sum of the node counts of
\* the violation groups; the Needs Review records number the sum of the node
\* counts of the incomplete groups, except that the orchestrator emits none
\* when includeIncompleteTests is not set; the orchestrator emits no other
\* record, the single-URL script also one Pass record per node of a pass
\* group.
C6_FanOut ==
    RuleGroupNormalized =>
        /\ CountRows(csvData, "Violation") = SumNodes(results[1].violations)
        /\ CountRows(csvData, "Needs Review") =
              IF engine = "axe" /\ ~config.output.includeIncompleteTests
              THEN 0 ELSE SumNodes(results[1].incomplete)
        /\ CountRows(csvData, "Pass") =
              IF engine = "axe" THEN 0 ELSE SumNodes(results[1].passes)
        /\ Len(csvData) = CountRows(csvData, "Violation")
                          + CountRows(csvData, "Needs Review")
                          + CountRows(csvData, "Pass")

C6_Witness ==
    /\ AxeNormalized
    /\ ~config.output.includeIncompleteTests
    /\ SumNodes(results[1].incomplete) > 0
    /\ \E i, j \in DOMAIN results[1].violations :
          /\ results[1].violations[i].nodes = <<>>
          /\ Len(results[1].violations[j].nodes) = 2
    /\ CountRows(csvData, "Violation") = 2
    /\ CountRows(csvData, "Needs Review") = 0

\* C7: the values of violationsByCategory sum to the number of
\* Violation records emitted for the URL.
C7_CountsSumToViolationRecords ==
    AxeReported =>
        pending[1].violationsByCategory.critical
        + pending[1].violationsByCategory.serious
            = CountRows(csvData, "Violation")

\* C8: violationsByWCAG is counted per record: a violation group
\* with k nodes and tag t adds k to bucket t, and a key is present only when
\* its count is greater than zero.
C8_TagCountsPerRecord ==
    AxeReported =>
        LET v == results[1].violations
            w == pending[1].violationsByWCAG
        IN  \A t \in {u \in AllTags : IsWcagTag(u)} :
                LET n == SumNodes([i \in 1..Len(v) |->
                             IF t \in Range(v[i].tags) THEN v[i]
                             ELSE [v[i] EXCEPT !.nodes = <<>>]])
                IN  /\ t \in DOMAIN w <=> n > 0
                    /\ t \in DOMAIN w => w[t] = n

\* C9 (as claimed): every record prepared for the CSV has a populated impact;
\* records of a group whose impact is null carry "unknown".
C9_ImpactPopulated ==
    RuleGroupNormalized =>
        \A k \in DOMAIN csvData : csvData[k].impact # NoImpact

\* C10 (as claimed): whenever the navigation timer or the analysis timer
\* fires, the check returns an outcome with `error` set, the remediation
\* hint is printed for that URL, and the check is started only once.
C10_TimeoutPrintsHint ==
    \A p \in DOMAIN trace :
        Orchestrated /\ trace[p].ev \in {"navigation_timeout", "analysis_timeout"} =>
            LET i == trace[p].idx
            IN  /\ \E q \in DOMAIN trace : trace[q] = Ev("hint", i)
                /\ Cardinality({q \in DOMAIN trace : trace[q] = Ev("check", i)}) = 1
                /\ IF i <= Len(summary) THEN HasError(summary[i])
                   ELSE pending # <<>> /\ HasError(pending[1])

\* the column of a header that holds field id
ColumnOf(header, id) == CHOOSE c \in DOMAIN header : header[c].id = id

\* the report file the check in progress has just written
LastFile == files[Len(files)]

\* the check in progress has written its report and returns a success outcome
Pa11yReported ==
    /\ engine = "pa11y"
    /\ pc = "return"
    /\ results # <<>>
    /\ ~HasError(pending[1])

\* C11: the CSV written for a URL is one header line followed by one line per
\* record, in the engine's order: for axe the violation groups in order, the
\* nodes of each group in order, then (when included) the incomplete groups
\* likewise; for the single-URL script the violation groups, the pass
\* groups, then the incomplete groups; for pa11y the issues in list order.
C11_CsvRowsInEngineOrder ==
    /\ LegacyReported =>
          LET v == results[1].violations
              pass == results[1].passes
              inc == results[1].incomplete
              lines == LastFile.lines
              Col(id) == ColumnOf(LegacyHeader, id)
          IN  /\ Len(lines) = 1 + Len(csvData)
              /\ Len(csvData) = SumNodes(v) + SumNodes(pass) + SumNodes(inc)
              /\ lines[1] = [c \in 1..Len(LegacyHeader) |-> LegacyHeader[c].title]
              /\ \A g \in DOMAIN v : \A n \in DOMAIN v[g].nodes :
                    LET line == lines[1 + SumNodes(SubSeq(v, 1, g - 1)) + n]
                    IN  /\ line[Col("type")] = "Violation"
                        /\ line[Col("wcag")] = Join(WcagTags(v[g].tags))
                        /\ line[Col("element")] = v[g].nodes[n].html
              /\ \A g \in DOMAIN pass : \A n \in DOMAIN pass[g].nodes :
                    LET line == lines[1 + SumNodes(v)
                                        + SumNodes(SubSeq(pass, 1, g - 1)) + n]
                    IN  /\ line[Col("type")] = "Pass"
                        /\ line[Col("element")] = pass[g].nodes[n].html
              /\ \A g \in DOMAIN inc : \A n \in DOMAIN inc[g].nodes :
                    LET line == lines[1 + SumNodes(v) + SumNodes(pass)
                                        + SumNodes(SubSeq(inc, 1, g - 1)) + n]
                    IN  /\ line[Col("type")] = "Needs Review"
                        /\ line[Col("element")] = inc[g].nodes[n].html
    /\ AxeReported =>
          LET v == results[1].violations
              inc == results[1].incomplete
              lines == LastFile.lines
              Col(id) == ColumnOf(AxeHeader, id)
          IN  /\ Len(lines) = 1 + Len(csvData)
              /\ lines[1] = [c \in 1..Len(AxeHeader) |-> AxeHeader[c].title]
              /\ \A g \in DOMAIN v : \A n \in DOMAIN v[g].nodes :
                    LET line == lines[1 + SumNodes(SubSeq(v, 1, g - 1)) + n]
                    IN  /\ line[Col("type")] = "Violation"
                        /\ line[Col("id")] = v[g].id
                        /\ line[Col("element")] = v[g].nodes[n].html
              /\ config.output.includeIncompleteTests =>
                    \A g \in DOMAIN inc : \A n \in DOMAIN inc[g].nodes :
                       LET line == lines[1 + SumNodes(v)
                                           + SumNodes(SubSeq(inc, 1, g - 1)) + n]
                       IN  /\ line[Col("type")] = "Needs Review"
                           /\ line[Col("element")] = inc[g].nodes[n].html
    /\ Pa11yReported =>
          LET issues == results[1]
              lines == LastFile.lines
          IN  /\ Len(lines) = 1 + Len(issues)
              /\ lines[1] = [c \in 1..Len(Pa11yHeader) |-> Pa11yHeader[c].title]
              /\ \A k \in DOMAIN issues :
                    /\ lines[1 + k][ColumnOf(Pa11yHeader, "type")] = issues[k].type
                    /\ lines[1 + k][ColumnOf(Pa11yHeader, "code")] = issues[k].code

C11_Witness ==
    /\ AxeReported
    /\ config.output.includeIncompleteTests
    /\ Len(results[1].violations) = 2
    /\ results[1].violations[1].id # results[1].violations[2].id
    /\ \A g \in 1..2 : Len(results[1].violations[g].nodes) = 2
    /\ SumNodes(results[1].incomplete) = 2
    /\ Len(LastFile.lines) = 7

\* the run has printed its summary table
SummaryPrinted == Orchestrated /\ pc = "exited" /\ ~Crashed /\ RunUrls # <<>>

\* sum of one numeric field over outcomes
RECURSIVE SumField(_, _)
SumField(outcomes, f) ==
    IF outcomes = <<>> THEN 0
    ELSE Head(outcomes)[f] + SumField(Tail(outcomes), f)

\* the last row printed is a TOTAL row
HasTotalRow ==
    /\ Len(rows) = Len(summary) + 1
    /\ rows[Len(rows)].url.text = "TOTAL"

\* C12 (as claimed): the printed summary of either engine has one row per
\* outcome plus a TOTAL row, and each numeric cell of the TOTAL row is the
\* sum of its column over the rows above.
C12_TotalRowIsColumnSum ==
    SummaryPrinted =>
        /\ HasTotalRow
        /\ engine = "pa11y" =>
              rows[Len(rows)].cells =
                  <<ToString(SumField(summary, "total")),
                    ToString(SumField(summary, "errors")),
                    ToString(SumField(summary, "warnings")),
                    ToString(SumField(summary, "notices"))>>

\* C13 (as claimed): in every printed summary row of either engine, success
\* row or error row, the URL cell occupies exactly the 40 characters of the
\* URL column, whatever the length of the URL.
C13_UrlCellHasColumnWidth ==
    pc = "exited" =>
        \A i \in 1..Len(rows) : rows[i].url.width = UrlColumn

\* C14 (as claimed): when the write of the report of URL i fails, the error
\* is printed and recorded in the outcome of URL i, the write and the check
\* are attempted once only, and when the run has ended every URL after i has
\* been checked and has its outcome in the summary.
C14_WriteFailureDoesNotStopRun ==
    \A p \in DOMAIN trace :
        trace[p].ev = "write_failed" =>
            LET i == trace[p].idx
            IN  /\ \E q \in DOMAIN trace : trace[q] = Ev("error", i)
                /\ Cardinality({q \in DOMAIN trace : trace[q] = Ev("write_failed", i)}) = 1
                /\ Cardinality({q \in DOMAIN trace : trace[q] = Ev("check", i)}) = 1
                /\ Orchestrated =>
                      IF i <= Len(summary) THEN HasError(summary[i])
                      ELSE pending # <<>> /\ HasError(pending[1])
                /\ pc = "exited" =>
                      \A j \in (i + 1)..Len(RunUrls) : Checked(j) /\ j <= Len(summary)

\* C16 (as claimed): in the report of the script that reads the output
\* options (the single-URL script reads none), Needs Review records are present
\* exactly when includeIncompleteTests is set and an incomplete group has
\* nodes, Pass records exactly when includePassingTests is set and a pass
\* group has nodes, and every node of a violation group has its record.
C16_OptionsSelectRecordTypes ==
    AxeNormalized =>
        /\ CountRows(csvData, "Needs Review") > 0
              <=> (config.output.includeIncompleteTests
                   /\ SumNodes(results[1].incomplete) > 0)
        /\ CountRows(csvData, "Pass") > 0
              <=> (config.output.includePassingTests
                   /\ SumNodes(results[1].passes) > 0)
        /\ CountRows(csvData, "Violation") = SumNodes(results[1].violations)

\* C17: for every pa11y result one record is written per issue, every issue
\* is counted in exactly one of errors, warnings, notices according to its
\* type, and the three counts add up to the reported total.
C17_FlatIssuesCountedOnce ==
    Pa11yReported =>
        LET issues == results[1]
            o == pending[1]
            OfType(t) == {k \in DOMAIN issues : issues[k].type = t}
        IN  /\ Len(csvData) = Len(issues)
            /\ Len(LastFile.lines) = 1 + Len(issues)
            /\ o.total = Len(issues)
            /\ o.errors = Cardinality(OfType("error"))
            /\ o.warnings = Cardinality(OfType("warning"))
            /\ o.notices = Cardinality(OfType("notice"))
            /\ o.errors + o.warnings + o.notices = o.total

C17_Witness ==
    /\ Pa11yReported
    /\ Len(results[1]) = 3
    /\ pending[1].errors = 1
    /\ pending[1].warnings = 1
    /\ pending[1].notices = 1

\* C18: in the run of the axe orchestrator the browser launched for a URL
\* is closed before its check returns, on every path: none is open between
\* two checks, and none when the summary is printed or the process has
\* exited; in every script at most one browser is open at any time.
C18_BrowserClosedAfterEachCheck ==
    /\ browser \in {0, 1}
    /\ engine = "axe" =>
        /\ pc \in {"entry", "loop", "launch", "exited"} => browser = 0
        /\ pc \in {"navigate", "analyse", "report"} => browser = 1
        /\ Len(EventsOf("launch")) - Len(EventsOf("push")) \in {0, 1}

C18_Witness ==
    /\ engine = "axe"
    /\ pc = "exited"
    /\ rows # <<>>
    /\ browser = 0
    /\ Len(summary) = 2
    /\ \E p \in DOMAIN trace : trace[p] = Ev("write_failed", 1)
    /\ \E p \in DOMAIN trace : trace[p] = Ev("analysis_timeout", 2)

\* C15 (as claimed): any two reports written by a script whose URL or whose
\* time of writing differs have different file names.
C15_DistinctUrlOrTimeDistinctNames ==
    \A i, j \in DOMAIN files :
        (files[i].url # files[j].url \/ files[i].time # files[j].time)
            => files[i].name # files[j].name

\* the part of the file name taken from the URL: the hostname (index.js),
\* the URL without its scheme (pa11y script), other characters as "-"
NamePart(url) ==
    IF engine = "pa11y" THEN ReplaceOthers(StripScheme(UrlChars(url)), WordChars)
    ELSE ReplaceOthers(Hostname(UrlChars(url)), AlphaNum)

\* C15 (amended): two reports written by a script have the same file name
\* exactly when they were written in the same millisecond for URLs that give
\* the same sanitized part (as two URLs of one host do in index.js), be they
\* reports of one run or of two.
C15_DistinctTimesDistinctNames ==
    \A i, j \in DOMAIN files :
        files[i].name = files[j].name
            <=> /\ files[i].time = files[j].time
                /\ NamePart(files[i].url) = NamePart(files[j].url)

\* a report written a millisecond after the report of the directory for the
\* same URL has another name; the next report of the run, which reads the
\* same millisecond for a URL with the same sanitized part, has the same name
C15_Witness ==
    /\ Len(files) = 3
    /\ files[1].url = files[2].url
    /\ files[2].time = files[1].time + 1
    /\ files[1].name # files[2].name
    /\ files[3].url # files[2].url
    /\ files[3].time = files[2].time
    /\ files[3].name = files[2].name

============================================================================
